---- MODULE Spec2Model ----
(***************************************************************************)
(* Model of train.py: the epoch/batch control loop, the distributed        *)
(* set-up and tear-down, the checkpoint/resume logic and the two           *)
(* best-model artifacts.                                                   *)
(*                                                                         *)
(* Every process of a launch runs the same script.  A launch is followed   *)
(* by another launch (Relaunch) once it has halted, so that a run can be   *)
(* resumed from the checkpoint an earlier run wrote.                       *)
(*                                                                         *)
(* Abstractions.  Metric and loss values are in hundredths (0.45 is 45,    *)
(* the loss sentinel 100 is 10000).  The model parameters are the number   *)
(* of optimizer updates applied to them, the optimizer state the number of *)
(* optimizer steps taken, the scheduler state the number of                *)
(* scheduler.step() calls, and the scaler state its scale and growth       *)
(* tracker.  A file on disk is absent, partial (being written) or          *)
(* complete.                                                               *)
(***************************************************************************)
EXTENDS Integers, Sequences, FiniteSets, TLC

\* ---------------------------------------------------------------- bounds
MaxWorld == 2
MaxEpochs == 2
NumBatches == 1
MaxRuns == 2
MaxOverflows == 1

\* ------------------------------------------------------ program constants
FreshMiou == 0
FreshValLoss == 10000
InitScale == 65536
GrowthInterval == 2000

\* Values the evaluation service may return when it is not scripted.
MetricVals == {0, 30, 45}
LossVals == {100, 150, 10000}

\* The metric/loss sequence of the specification's worked example.
ExampleScript ==
    << <<10, 200>>, <<45, 100>>, <<30, 150>>, <<45, 100>>, <<50, 80>> >>

VARIABLES
    cfg,              \* the run's configuration (cfg of load_cfg)
    evalScript,       \* what eval.evaluate returns per epoch; <<>> = any value
    runs,             \* number of launches so far
    pc,               \* each process's position in the script
    start_epoch, epoch, batch_idx, iters, found_inf,
    model, optimizer, scheduler, scaler,
    miou, val_loss, prev_miou, prev_val_loss,
    exit,             \* how the process left the epoch loop
    teardowns,        \* number of destroy_process_group calls of the process
    checkpoint_pth,   \* weights/<model>_checkpoint.pth
    best_miou_pth,    \* weights/<model>_best_miou.pth
    best_val_loss_pth,\* weights/<model>_best_val_loss.pth
    writes            \* log of the file writes of this launch: <<file, rank, epoch>>

vars == << cfg, evalScript, runs, pc, start_epoch, epoch, batch_idx, iters,
           found_inf, model, optimizer, scheduler, scaler, miou, val_loss,
           prev_miou, prev_val_loss, exit, teardowns, checkpoint_pth,
           best_miou_pth, best_val_loss_pth, writes >>

procVars == << start_epoch, epoch, batch_idx, iters, found_inf, model,
               optimizer, scheduler, scaler, miou, val_loss, prev_miou,
               prev_val_loss, exit, teardowns >>

diskVars == << checkpoint_pth, best_miou_pth, best_val_loss_pth >>

Procs == 0 .. (cfg.world - 1)

\* ------------------------------------------------------------ components
FreshScaler(amp) ==
    IF amp THEN [scale |-> InitScale, growth_tracker |-> 0]
           ELSE [scale |-> 1, growth_tracker |-> 0]

AbsentCheckpoint ==
    [state |-> "absent", epoch |-> 0, miou |-> 0, val_loss |-> 0,
     model |-> 0, optimizer |-> 0, scheduler |-> 0,
     scaler |-> [scale |-> 1, growth_tracker |-> 0]]

PartialCheckpoint == [AbsentCheckpoint EXCEPT !.state = "partial"]

AbsentArtifact == [present |-> FALSE, model |-> 0]

EveryRankWrites(p) == TRUE

\* rank resolution: the process that owns the files
IsWriter(p) == p = 0

AlwaysBetter(m, prev) == TRUE

TieIsBetter(m, prev) == m >= prev

\* the two comparisons of the best-model policy
BetterMiou(m, prev) == m > prev

BetterValLoss(l, prev) == l < prev

RepeatEpoch(ckpt) == ckpt.epoch

\* start_epoch of a resumed run
ResumeEpoch(ckpt) == ckpt.epoch + 1

\* the best values a resumed run starts with
ResumeMiou(ckpt) == ckpt.miou

ResumeValLoss(ckpt) == ckpt.val_loss

NeverFineTuning == FALSE

\* line 57: fine-tune mode restores the model parameters only
FineTuning == cfg.fine

\* global iteration counter of a batch
GlobalIter(e, b) == NumBatches * e + b

\* GradScaler.update
ScalerUpdate(s, inf, amp) ==
    IF ~amp THEN s
    ELSE IF inf THEN [scale |-> s.scale \div 2, growth_tracker |-> 0]
    ELSE IF s.growth_tracker + 1 = GrowthInterval
         THEN [scale |-> s.scale * 2, growth_tracker |-> 0]
         ELSE [scale |-> s.scale, growth_tracker |-> s.growth_tracker + 1]

NobodyWaits(loc) == TRUE

\* a collective completes when every process of the group waits in it
AllArrived(loc) == \A p \in Procs : pc[p] = loc

Terminated(p) == pc[p] \in {"done", "failed"}

\* every process has ended, or waits in a collective a peer will never join
Halted ==
    \A p \in Procs :
        \/ Terminated(p)
        \/ /\ pc[p] \in {"barrier", "backward"}
           /\ \E q \in Procs : Terminated(q)

\* ------------------------------------------------------------ the launch
Launch(c, script) ==
    /\ cfg = c
    /\ evalScript = script
    /\ runs = 1
    /\ pc = [p \in 0 .. (c.world - 1) |-> "start"]
    /\ start_epoch = [p \in 0 .. (c.world - 1) |-> 0]
    /\ epoch = [p \in 0 .. (c.world - 1) |-> 0]
    /\ batch_idx = [p \in 0 .. (c.world - 1) |-> 0]
    /\ iters = [p \in 0 .. (c.world - 1) |-> -1]
    /\ found_inf = [p \in 0 .. (c.world - 1) |-> FALSE]
    /\ model = [p \in 0 .. (c.world - 1) |-> 0]
    /\ optimizer = [p \in 0 .. (c.world - 1) |-> 0]
    /\ scheduler = [p \in 0 .. (c.world - 1) |-> 0]
    /\ scaler = [p \in 0 .. (c.world - 1) |-> FreshScaler(c.amp)]
    /\ miou = [p \in 0 .. (c.world - 1) |-> 0]
    /\ val_loss = [p \in 0 .. (c.world - 1) |-> 0]
    /\ prev_miou = [p \in 0 .. (c.world - 1) |-> FreshMiou]
    /\ prev_val_loss = [p \in 0 .. (c.world - 1) |-> FreshValLoss]
    /\ exit = [p \in 0 .. (c.world - 1) |-> "none"]
    /\ teardowns = [p \in 0 .. (c.world - 1) |-> 0]
    /\ checkpoint_pth = AbsentCheckpoint
    /\ best_miou_pth = AbsentArtifact
    /\ best_val_loss_pth = AbsentArtifact
    /\ writes = {}

Configs(worlds, epochs) ==
    { [ddp |-> d, world |-> w, amp |-> a, resume |-> r, fine |-> f,
       epochs |-> epochs] :
        d \in BOOLEAN, w \in worlds, a \in BOOLEAN, r \in BOOLEAN,
        f \in BOOLEAN }

\* one process, any value from the evaluation service
Init ==
    \E c \in Configs({1}, MaxEpochs) :
        /\ c.resume \/ ~c.fine
        /\ Launch(c, << >>)

\* up to MaxWorld processes, the evaluation service returns the example
InitScript ==
    \E c \in Configs(1 .. MaxWorld, Len(ExampleScript)) :
        /\ c.ddp \/ c.world = 1
        /\ c.resume \/ ~c.fine
        /\ Launch(c, ExampleScript)

\* The script is started again (after a stop, a completed run or a hang),
\* with or without a resume path.  The files on disk stay.
Relaunch ==
    /\ Halted
    /\ runs < MaxRuns
    /\ runs' = runs + 1
    /\ \E r \in BOOLEAN, f \in BOOLEAN :
        /\ r \/ ~f
        /\ cfg' = [cfg EXCEPT !.resume = r, !.fine = f]
    /\ pc' = [p \in Procs |-> "start"]
    /\ start_epoch' = [p \in Procs |-> 0]
    /\ epoch' = [p \in Procs |-> 0]
    /\ batch_idx' = [p \in Procs |-> 0]
    /\ iters' = [p \in Procs |-> -1]
    /\ found_inf' = [p \in Procs |-> FALSE]
    /\ model' = [p \in Procs |-> 0]
    /\ optimizer' = [p \in Procs |-> 0]
    /\ scheduler' = [p \in Procs |-> 0]
    /\ scaler' = [p \in Procs |-> FreshScaler(cfg.amp)]
    /\ miou' = [p \in Procs |-> 0]
    /\ val_loss' = [p \in Procs |-> 0]
    /\ prev_miou' = [p \in Procs |-> FreshMiou]
    /\ prev_val_loss' = [p \in Procs |-> FreshValLoss]
    /\ exit' = [p \in Procs |-> "none"]
    /\ teardowns' = [p \in Procs |-> 0]
    /\ writes' = {}
    /\ UNCHANGED << evalScript, diskVars >>

\* ------------------------------------------------------- set-up, resume
\* lines 14-46: process group, datasets, model, optimizer, scheduler, scaler
Setup(p) ==
    /\ pc[p] = "start"
    /\ model' = [model EXCEPT ![p] = 0]
    /\ optimizer' = [optimizer EXCEPT ![p] = 0]
    /\ scheduler' = [scheduler EXCEPT ![p] = 0]
    /\ scaler' = [scaler EXCEPT ![p] = FreshScaler(cfg.amp)]
    /\ pc' = [pc EXCEPT ![p] =
                IF ~cfg.resume THEN "fresh"
                ELSE IF cfg.ddp THEN "barrier" ELSE "load"]
    /\ UNCHANGED << cfg, evalScript, runs, start_epoch, epoch, batch_idx,
                    iters, found_inf, miou, val_loss, prev_miou,
                    prev_val_loss, exit, teardowns, diskVars, writes >>

\* lines 67-70
FreshStart(p) ==
    /\ pc[p] = "fresh"
    /\ start_epoch' = [start_epoch EXCEPT ![p] = 0]
    /\ prev_miou' = [prev_miou EXCEPT ![p] = FreshMiou]
    /\ prev_val_loss' = [prev_val_loss EXCEPT ![p] = FreshValLoss]
    /\ pc' = [pc EXCEPT ![p] = "ready"]
    /\ UNCHANGED << cfg, evalScript, runs, epoch, batch_idx, iters, found_inf,
                    model, optimizer, scheduler, scaler, miou, val_loss,
                    exit, teardowns, diskVars, writes >>

\* line 52: torch.distributed.barrier()
Barrier ==
    /\ cfg.ddp
    /\ \E p \in Procs : pc[p] = "barrier"
    /\ AllArrived("barrier")
    /\ pc' = [p \in Procs |-> IF pc[p] = "barrier" THEN "load" ELSE pc[p]]
    /\ UNCHANGED << cfg, evalScript, runs, procVars, diskVars, writes >>

\* lines 53/55: torch.load opens the file
BeginLoad(p) ==
    /\ pc[p] = "load"
    /\ pc' = [pc EXCEPT ![p] =
                IF checkpoint_pth.state = "absent" THEN "failed" ELSE "loading"]
    /\ UNCHANGED << cfg, evalScript, runs, procVars, diskVars, writes >>

\* lines 53-66: the record is read and the components are restored
EndLoad(p) ==
    /\ pc[p] = "loading"
    /\ IF checkpoint_pth.state # "complete"
       THEN /\ pc' = [pc EXCEPT ![p] = "failed"]
            /\ UNCHANGED << model, optimizer, scheduler, scaler, start_epoch,
                            prev_miou, prev_val_loss >>
       ELSE /\ pc' = [pc EXCEPT ![p] = "ready"]
            /\ model' = [model EXCEPT ![p] = checkpoint_pth.model]
            /\ IF FineTuning
               THEN UNCHANGED << optimizer, scheduler, scaler >>
               ELSE /\ optimizer' = [optimizer EXCEPT ![p] = checkpoint_pth.optimizer]
                    /\ scheduler' = [scheduler EXCEPT ![p] = checkpoint_pth.scheduler]
                    /\ scaler' = [scaler EXCEPT ![p] =
                                    IF cfg.amp THEN checkpoint_pth.scaler
                                               ELSE scaler[p]]
            /\ start_epoch' = [start_epoch EXCEPT ![p] = ResumeEpoch(checkpoint_pth)]
            /\ prev_miou' = [prev_miou EXCEPT ![p] = ResumeMiou(checkpoint_pth)]
            /\ prev_val_loss' = [prev_val_loss EXCEPT ![p] = ResumeValLoss(checkpoint_pth)]
    /\ UNCHANGED << cfg, evalScript, runs, epoch, batch_idx, iters, found_inf,
                    miou, val_loss, exit, teardowns, diskVars, writes >>

\* lines 72-77: the logging sink is opened and the epoch range is created
StartLoop(p) ==
    /\ pc[p] = "ready"
    /\ epoch' = [epoch EXCEPT ![p] = start_epoch[p]]
    /\ pc' = [pc EXCEPT ![p] = "loop"]
    /\ UNCHANGED << cfg, evalScript, runs, start_epoch, batch_idx, iters,
                    found_inf, model, optimizer, scheduler, scaler, miou,
                    val_loss, prev_miou, prev_val_loss, exit, teardowns,
                    diskVars, writes >>

\* ------------------------------------------------------- the epoch loop
NoBreak == "train"

\* where the loop goes when train_interupter() returns true
AfterInterrupt == "teardown"

\* lines 77-82: the range yields epoch[p], or is exhausted; the interrupt
\* predicate is polled
EpochTop(p) ==
    /\ pc[p] = "loop"
    /\ IF epoch[p] >= cfg.epochs
       THEN /\ exit' = [exit EXCEPT ![p] = "Completed"]
            /\ pc' = [pc EXCEPT ![p] = "teardown"]
            /\ UNCHANGED batch_idx
       ELSE \E interrupt \in BOOLEAN :
              IF interrupt
              THEN /\ exit' = [exit EXCEPT ![p] = "Stopped"]
                   /\ pc' = [pc EXCEPT ![p] = AfterInterrupt]
                   /\ UNCHANGED batch_idx
              ELSE /\ pc' = [pc EXCEPT ![p] = "train"]
                   /\ batch_idx' = [batch_idx EXCEPT ![p] = 0]
                   /\ UNCHANGED exit
    /\ UNCHANGED << cfg, evalScript, runs, start_epoch, epoch, iters,
                    found_inf, model, optimizer, scheduler, scaler, miou,
                    val_loss, prev_miou, prev_val_loss, teardowns, diskVars,
                    writes >>

\* lines 84-92: the batch is fetched, the forward pass and the loss
Forward(p) ==
    /\ pc[p] = "train"
    /\ iters' = [iters EXCEPT ![p] = GlobalIter(epoch[p], batch_idx[p])]
    /\ pc' = [pc EXCEPT ![p] = "backward"]
    /\ UNCHANGED << cfg, evalScript, runs, start_epoch, epoch, batch_idx,
                    found_inf, model, optimizer, scheduler, scaler, miou,
                    val_loss, prev_miou, prev_val_loss, exit, teardowns,
                    diskVars, writes >>

\* an overflow is only possible under reduced precision
CanOverflow ==
    /\ cfg.amp
    /\ \A p \in Procs : scaler[p].scale * (2 ^ MaxOverflows) > InitScale

\* line 92: the backward pass; the gradients are averaged over the process
\* group (line 37), so every process sees the same gradients
Backward ==
    /\ \E p \in Procs : pc[p] = "backward"
    /\ AllArrived("backward")
    /\ \E inf \in BOOLEAN :
        /\ inf => CanOverflow
        /\ found_inf' = [p \in Procs |->
                            IF pc[p] = "backward" THEN inf ELSE found_inf[p]]
    /\ pc' = [p \in Procs |-> IF pc[p] = "backward" THEN "step" ELSE pc[p]]
    /\ UNCHANGED << cfg, evalScript, runs, start_epoch, epoch, batch_idx,
                    iters, model, optimizer, scheduler, scaler, miou,
                    val_loss, prev_miou, prev_val_loss, exit, teardowns,
                    diskVars, writes >>

SchedulerStepSkipped(s, inf) == IF inf THEN s ELSE s + 1

\* what scheduler.step() on line 100 does to the scheduler state
SchedulerStep(s, inf) == s + 1

\* lines 93-100: scaler.step, scaler.update, logging, scheduler.step
Step(p) ==
    /\ pc[p] = "step"
    /\ IF found_inf[p]
       THEN UNCHANGED << model, optimizer >>
       ELSE /\ model' = [model EXCEPT ![p] = model[p] + 1]
            /\ optimizer' = [optimizer EXCEPT ![p] = optimizer[p] + 1]
    /\ scaler' = [scaler EXCEPT ![p] = ScalerUpdate(scaler[p], found_inf[p], cfg.amp)]
    /\ scheduler' = [scheduler EXCEPT ![p] = SchedulerStep(scheduler[p], found_inf[p])]
    /\ IF batch_idx[p] + 1 < NumBatches
       THEN /\ batch_idx' = [batch_idx EXCEPT ![p] = batch_idx[p] + 1]
            /\ pc' = [pc EXCEPT ![p] = "train"]
       ELSE /\ UNCHANGED batch_idx
            /\ pc' = [pc EXCEPT ![p] = "eval"]
    /\ UNCHANGED << cfg, evalScript, runs, start_epoch, epoch, iters,
                    found_inf, miou, val_loss, prev_miou, prev_val_loss,
                    exit, teardowns, diskVars, writes >>

\* what eval.evaluate may return in epoch e: << mIoU, validation loss >>
EvalOutcomes(e) ==
    IF evalScript = << >> THEN MetricVals \X LossVals ELSE { evalScript[e + 1] }

\* lines 102-119: evaluation and the logged images
Evaluate(p) ==
    /\ pc[p] = "eval"
    /\ \E r \in EvalOutcomes(epoch[p]) :
        /\ miou' = [miou EXCEPT ![p] = r[1]]
        /\ val_loss' = [val_loss EXCEPT ![p] = r[2]]
    /\ pc' = [pc EXCEPT ![p] = "persist"]
    /\ UNCHANGED << cfg, evalScript, runs, start_epoch, epoch, batch_idx,
                    iters, found_inf, model, optimizer, scheduler, scaler,
                    prev_miou, prev_val_loss, exit, teardowns, diskVars,
                    writes >>

\* lines 121-124: the writer's torch.save opens the checkpoint file for
\* writing; on any other rank the block is skipped and the range yields the
\* next epoch
CheckpointPhase(p) ==
    /\ pc[p] = "persist"
    /\ IF IsWriter(p)
       THEN /\ checkpoint_pth' = PartialCheckpoint
            /\ writes' = writes \cup { << "checkpoint", p, epoch[p] >> }
            /\ pc' = [pc EXCEPT ![p] = "saving"]
            /\ UNCHANGED epoch
       ELSE /\ epoch' = [epoch EXCEPT ![p] = epoch[p] + 1]
            /\ pc' = [pc EXCEPT ![p] = "loop"]
            /\ UNCHANGED << checkpoint_pth, writes >>
    /\ UNCHANGED << cfg, evalScript, runs, start_epoch, batch_idx, iters,
                    found_inf, model, optimizer, scheduler, scaler, miou,
                    val_loss, prev_miou, prev_val_loss, exit, teardowns,
                    best_miou_pth, best_val_loss_pth >>

\* the record of lines 124-132
Record(p) ==
    [state |-> "complete", epoch |-> epoch[p], miou |-> miou[p],
     val_loss |-> val_loss[p], model |-> model[p],
     optimizer |-> optimizer[p], scheduler |-> scheduler[p],
     scaler |-> IF cfg.amp THEN scaler[p] ELSE AbsentCheckpoint.scaler]

\* lines 124-142: the record is written, then the two best-model artifacts
Persist(p) ==
    /\ pc[p] = "saving"
    /\ checkpoint_pth' = Record(p)
    /\ IF BetterMiou(miou[p], prev_miou[p])
       THEN /\ best_miou_pth' = [present |-> TRUE, model |-> model[p]]
            /\ prev_miou' = [prev_miou EXCEPT ![p] = miou[p]]
       ELSE UNCHANGED << best_miou_pth, prev_miou >>
    /\ IF BetterValLoss(val_loss[p], prev_val_loss[p])
       THEN /\ best_val_loss_pth' = [present |-> TRUE, model |-> model[p]]
            /\ prev_val_loss' = [prev_val_loss EXCEPT ![p] = val_loss[p]]
       ELSE UNCHANGED << best_val_loss_pth, prev_val_loss >>
    /\ writes' = writes
         \cup (IF BetterMiou(miou[p], prev_miou[p])
               THEN { << "best_miou", p, epoch[p] >> } ELSE {})
         \cup (IF BetterValLoss(val_loss[p], prev_val_loss[p])
               THEN { << "best_val_loss", p, epoch[p] >> } ELSE {})
    /\ epoch' = [epoch EXCEPT ![p] = epoch[p] + 1]
    /\ pc' = [pc EXCEPT ![p] = "loop"]
    /\ UNCHANGED << cfg, evalScript, runs, start_epoch, batch_idx, iters,
                    found_inf, model, optimizer, scheduler, scaler, miou,
                    val_loss, exit, teardowns >>

\* destroy_process_group() raises when no process group was initialised
DestroyFails == ~cfg.ddp

\* lines 143-144: writer.close(), torch.distributed.destroy_process_group()
Teardown(p) ==
    /\ pc[p] = "teardown"
    /\ teardowns' = [teardowns EXCEPT ![p] = teardowns[p] + 1]
    /\ pc' = [pc EXCEPT ![p] = IF DestroyFails THEN "failed" ELSE "done"]
    /\ UNCHANGED << cfg, evalScript, runs, start_epoch, epoch, batch_idx,
                    iters, found_inf, model, optimizer, scheduler, scaler,
                    miou, val_loss, prev_miou, prev_val_loss, exit, diskVars,
                    writes >>

Next ==
    \/ \E p \in Procs : Setup(p)
    \/ \E p \in Procs : FreshStart(p)
    \/ \E p \in Procs : BeginLoad(p)
    \/ \E p \in Procs : EndLoad(p)
    \/ \E p \in Procs : StartLoop(p)
    \/ \E p \in Procs : EpochTop(p)
    \/ \E p \in Procs : Forward(p)
    \/ \E p \in Procs : Step(p)
    \/ \E p \in Procs : Evaluate(p)
    \/ \E p \in Procs : CheckpointPhase(p)
    \/ \E p \in Procs : Persist(p)
    \/ \E p \in Procs : Teardown(p)
    \/ Barrier
    \/ Backward
    \/ Relaunch

Spec == Init /\ [][Next]_vars

SpecScript == InitScript /\ [][Next]_vars

\* ================================================================ claims
InLoop(p) ==
    \/ pc[p] \in {"loop", "train", "backward", "step", "eval", "persist",
                  "saving", "teardown"}
    \/ Terminated(p) /\ exit[p] # "none"

Written(file, p) == { w[3] : w \in { x \in writes : x[1] = file /\ x[2] = p } }

\* C1: once the writer has completed epoch e, the checkpoint record holds
\* epoch = e (the loop is then at e + 1), and a run resumed from a record
\* starts its loop at record.epoch + 1, so that the record's epoch is always
\* the epoch before the one the writer's loop is at.
C1_EpochRecordedAndResumed ==
    \A p \in Procs :
        /\ (p = 0 /\ cfg.resume /\ pc[p] = "ready")
              => start_epoch[p] = checkpoint_pth.epoch + 1
        /\ (p = 0 /\ InLoop(p) /\ pc[p] # "saving"
                  /\ (cfg.resume \/ epoch[p] > start_epoch[p]))
              => /\ checkpoint_pth.state = "complete"
                 /\ checkpoint_pth.epoch = epoch[p] - 1

\* a resumed run that started at epoch 1 has completed epoch 1
C1_Witness ==
    /\ runs = 2 /\ cfg.resume
    /\ pc[0] = "loop" /\ start_epoch[0] = 1 /\ epoch[0] = 2
    /\ checkpoint_pth.epoch = 1

\* C2: within a run's epoch loop prev_miou never decreases and
\* prev_val_loss never increases, and each changes only in a persist step
\* whose epoch value is strictly better, to that value.
C2_BestMonotone ==
    [][ \A p \in Procs :
          (runs' = runs /\ InLoop(p)) =>
            /\ prev_miou'[p] >= prev_miou[p]
            /\ prev_val_loss'[p] <= prev_val_loss[p]
            /\ prev_miou'[p] # prev_miou[p] =>
                  /\ pc[p] = "saving"
                  /\ miou[p] > prev_miou[p]
                  /\ prev_miou'[p] = miou[p]
            /\ prev_val_loss'[p] # prev_val_loss[p] =>
                  /\ pc[p] = "saving"
                  /\ val_loss[p] < prev_val_loss[p]
                  /\ prev_val_loss'[p] = val_loss[p] ]_vars

\* an epoch worse than the tracked best on both counts has been persisted
C2_Witness ==
    /\ pc[0] = "loop" /\ epoch[0] = start_epoch[0] + 2
    /\ miou[0] = 30 /\ prev_miou[0] = 45
    /\ val_loss[0] = 150 /\ prev_val_loss[0] = 100

\* the epochs of the example at which each artifact is overwritten
ExampleOverwrites == {0, 1, 4}

\* C3: on a fresh run a persist step overwrites the best-by-metric artifact
\* exactly when the epoch's metric is strictly greater than the tracked best
\* and the best-by-loss artifact exactly when the loss is strictly less; for
\* the example sequences both are overwritten at epochs 0, 1 and 4 only.
C3_StrictOverwrite ==
    [][ \A p \in Procs :
          /\ (~cfg.resume /\ pc[p] = "saving" /\ pc'[p] = "loop") =>
                /\ (<< "best_miou", p, epoch[p] >> \in writes')
                      <=> (miou[p] > prev_miou[p])
                /\ (best_miou_pth' # best_miou_pth) => (miou[p] > prev_miou[p])
                /\ (<< "best_val_loss", p, epoch[p] >> \in writes')
                      <=> (val_loss[p] < prev_val_loss[p])
                /\ (best_val_loss_pth' # best_val_loss_pth)
                      => (val_loss[p] < prev_val_loss[p])
          /\ (~cfg'.resume /\ p = 0 /\ pc'[p] = "loop"
                /\ evalScript' = ExampleScript) =>
                /\ Written("best_miou", p)'
                      = { e \in ExampleOverwrites : e < epoch'[p] }
                /\ Written("best_val_loss", p)'
                      = { e \in ExampleOverwrites : e < epoch'[p] } ]_vars

\* the fresh run has persisted all five epochs of the example
C3_Witness ==
    /\ ~cfg.resume /\ evalScript = ExampleScript
    /\ pc[0] = "loop" /\ epoch[0] = Len(ExampleScript)
    /\ Written("best_miou", 0) = ExampleOverwrites
    /\ Written("best_val_loss", 0) = ExampleOverwrites

\* C4: the checkpoint record the writer leaves at the end of an epoch holds
\* the best metric and the best loss tracked so far.
C4_RecordHoldsBest ==
    (InLoop(0) /\ pc[0] # "saving" /\ epoch[0] > start_epoch[0]) =>
        /\ checkpoint_pth.miou = prev_miou[0]
        /\ checkpoint_pth.val_loss = prev_val_loss[0]

BatchDone(p) == pc[p] = "step" /\ pc'[p] # "step"

NextBatch(p) == pc[p] = "train" /\ pc'[p] = "backward" /\ iters[p] >= 0

C6_TeardownOnce ==
    \A p \in Procs :
        (exit[p] # "none" /\ Terminated(p)) =>
            /\ teardowns[p] = 1
            /\ pc[p] = "done"

\* what a process interrupted at the start of epoch k has done
StoppedBefore(p) ==
    /\ iters[p] < GlobalIter(epoch[p], 0)
    /\ \A w \in writes : w[2] = p => w[3] < epoch[p]
    /\ (p = 0 /\ epoch[p] > start_epoch[p]) =>
          /\ checkpoint_pth.state = "complete"
          /\ checkpoint_pth.epoch = epoch[p] - 1

\* C7: a process whose interrupt predicate returned true at the start of
\* epoch k has run no batch and written no file of an epoch >= k, runs no
\* batch, evaluation or persist step afterwards, and, when it is the writer,
\* the checkpoint file stays the one written at the end of epoch k - 1 (or
\* the one that was there when the run started).
C7_InterruptStopsEpoch ==
    [][ \A p \in Procs :
          /\ exit'[p] = "Stopped" => StoppedBefore(p)'
          /\ (exit[p] = "Stopped" /\ runs' = runs) =>
                /\ UNCHANGED << epoch[p], batch_idx[p], iters[p], model[p],
                                optimizer[p], scheduler[p], scaler[p],
                                miou[p], val_loss[p], prev_miou[p],
                                prev_val_loss[p] >>
                /\ pc'[p] \in {"teardown", "done", "failed"}
                /\ p = 0 => UNCHANGED << diskVars, writes >> ]_vars

\* the writer was interrupted at the start of epoch 1
C7_Witness ==
    /\ exit[0] = "Stopped" /\ Terminated(0)
    /\ epoch[0] = 1 /\ start_epoch[0] = 0
    /\ checkpoint_pth.state = "complete" /\ checkpoint_pth.epoch = 0

\* C8: after a resume the model parameters are the record's and
\* start_epoch is record.epoch + 1; in fine-tune mode the optimizer, the
\* schedule and the scaler are still freshly initialised, otherwise they are
\* the record's.
C8_FineTuneRestoresModelOnly ==
    \A p \in Procs :
        (cfg.resume /\ pc[p] = "ready" /\ checkpoint_pth.state = "complete") =>
            /\ model[p] = checkpoint_pth.model
            /\ start_epoch[p] = checkpoint_pth.epoch + 1
            /\ cfg.fine =>
                  /\ optimizer[p] = 0
                  /\ scheduler[p] = 0
                  /\ scaler[p] = FreshScaler(cfg.amp)
            /\ ~cfg.fine =>
                  /\ optimizer[p] = checkpoint_pth.optimizer
                  /\ scheduler[p] = checkpoint_pth.scheduler
                  /\ cfg.amp => scaler[p] = checkpoint_pth.scaler

\* a fine-tune resume from a record whose optimizer, schedule and scaler
\* states are not the fresh ones
C8_Witness ==
    /\ cfg.resume /\ cfg.fine /\ cfg.amp /\ pc[0] = "ready"
    /\ checkpoint_pth.state = "complete"
    /\ checkpoint_pth.model > 0 /\ checkpoint_pth.optimizer > 0
    /\ checkpoint_pth.scheduler > 0
    /\ checkpoint_pth.scaler # FreshScaler(TRUE)
    /\ model[0] = checkpoint_pth.model

\* C9: every file write of a launch is by rank 0, and no other rank is ever
\* inside a write.
C9_OnlyRankZeroWrites ==
    /\ \A w \in writes : w[2] = 0
    /\ \A p \in Procs : pc[p] = "saving" => p = 0

\* two processes: rank 1 is past its checkpoint phase, rank 0 is writing
C9_Witness ==
    /\ cfg.world >= 2
    /\ pc[1] = "loop" /\ epoch[1] = start_epoch[1] + 1
    /\ pc[0] = "saving"

PastBarrier(p) == pc[p] \notin {"start", "barrier"}

\* C10: in distributed mode with a resume path no process is past the
\* barrier before every process has arrived at it, and no process reads the
\* checkpoint file while rank 0 writes it.
C10_BarrierBeforeRead ==
    (cfg.ddp /\ cfg.resume) =>
        \A p \in Procs :
            /\ PastBarrier(p) => \A q \in Procs : pc[q] # "start"
            /\ pc[p] = "loading" =>
                  /\ checkpoint_pth.state # "partial"
                  /\ \A q \in Procs : pc[q] # "saving"

\* rank 1 still reads the record while rank 0 waits in its first backward
C10_Witness ==
    /\ cfg.ddp /\ cfg.resume /\ cfg.world >= 2
    /\ pc[1] = "loading" /\ pc[0] = "backward"

====
